---- MODULE Spec2Model ----
(***************************************************************************)
(* Model of the Steam review pipeline of mcp-steam-reviews:                *)
(*   server.py                      get_game_reviews (the MCP tool)        *)
(*   src/services/steam_service.py  get_app_id, fetch_reviews,             *)
(*                                  _get_stratified_sample,                *)
(*                                  sort_and_arrange_reviews               *)
(*   src/models/review.py           SteamReview.weight                     *)
(*   src/config/settings.py         CONFIG                                 *)
(*                                                                         *)
(* Four specifications share the variables below:                          *)
(*   Spec        the tool get_game_reviews, from the call to its result    *)
(*   SpecFetch   one call of fetch_reviews, page by page                   *)
(*   SpecSample  one call of _get_stratified_sample                        *)
(*   SpecArrange one call of sort_and_arrange_reviews                      *)
(* A specification leaves the variables of the others at their idle value. *)
(***************************************************************************)
EXTENDS Integers, Sequences, FiniteSets, TLC

VARIABLES
    pc,                \* position of the modelled call
    \* ---- fetch_reviews lines 143-147 and _get_stratified_sample
    caller,            \* who calls the sampler: "fetch_reviews" or "direct"
    buffer,            \* local buffer of fetch_reviews when its loop has ended
    reviews,           \* parameter reviews
    total_target,      \* parameter total_target
    result,            \* the returned list
    \* ---- sort_and_arrange_reviews
    pos_reviews,       \* parameter pos_reviews
    neg_reviews,       \* parameter neg_reviews
    pos_sorted,        \* local pos_sorted (= main_pos)
    neg_sorted,        \* local neg_sorted
    most_helpful_neg,  \* local most_helpful_neg: <<>> is None, <<r>> a review
    tail_negatives,    \* local tail_negatives
    main_neg,          \* local main_neg
    final_list,        \* the returned list
    \* ---- fetch_reviews
    buffer_len,        \* len(buffer)
    cursor,            \* local cursor
    attempts,          \* local attempts
    requests,          \* number of self._client.get calls issued
    stopped,           \* a break left the while loop
    \* ---- get_game_reviews
    game_input,        \* kind of the argument game_name: "url" or "name"
    count,             \* argument count
    half_count,        \* local half_count
    appid,             \* local appid: what get_app_id returned, a tuple
    fetch_calls,       \* the fetch_reviews calls made, by review_type
    fetched,           \* review_type -> length of the list its call returned
    tool_result        \* the returned message

vars == <<pc, caller, buffer, reviews, total_target, result,
          pos_reviews, neg_reviews, pos_sorted, neg_sorted, most_helpful_neg,
          tail_negatives, main_neg, final_list,
          buffer_len, cursor, attempts, requests, stopped,
          game_input, count, half_count, appid, fetch_calls, fetched,
          tool_result>>

sampleVars  == <<caller, buffer, reviews, total_target, result>>
arrangeVars == <<pos_reviews, neg_reviews, pos_sorted, neg_sorted,
                 most_helpful_neg, tail_negatives, main_neg, final_list>>
fetchVars   == <<buffer_len, cursor, attempts, requests, stopped>>
toolVars    == <<game_input, count, half_count, appid, fetch_calls, fetched,
                 tool_result>>

(***************************************************************************)
(* Bounds of the model.                                                    *)
(***************************************************************************)
MaxLen == 3        \* longest list given to _get_stratified_sample
MaxTarget == 5     \* largest total_target given to _get_stratified_sample
MaxPos == 2        \* longest pos_reviews given to sort_and_arrange_reviews
MaxNeg == 6        \* longest neg_reviews given to sort_and_arrange_reviews
MaxCount == 4      \* largest count given to get_game_reviews
MaxFetched == 2    \* longest list a fetch_reviews call of the tool returns

(***************************************************************************)
(* Generic helpers.                                                        *)
(***************************************************************************)
Max(a, b) == IF a >= b THEN a ELSE b
Min(a, b) == IF a <= b THEN a ELSE b

\* Python slice s[:n] for n >= 0
Take(s, n) == SubSeq(s, 1, Min(n, Len(s)))
\* Python slice s[n:] for n >= 0
Drop(s, n) == SubSeq(s, Min(n, Len(s)) + 1, Len(s))

\* All sequences over S of length 0..n
SeqUpTo(S, n) == UNION {[1..k -> S] : k \in 0..n}

(***************************************************************************)
(* SteamReview.  The fields the pipeline reads: review_id, is_positive,    *)
(* hours_played (whole hours) and votes_up.                                *)
(***************************************************************************)
SteamReview(id, positive, hours, votes) ==
    [review_id |-> id, is_positive |-> positive,
     hours_played |-> hours, votes_up |-> votes]

\* math.log(v + 1) in millionths, rounded down, for v = 0..3
LnMicro == <<0, 693147, 1098612, 1386294>>

\* SteamReview.weight: hours_played * math.log(votes_up + 1), in millionths
weight(r) == r.hours_played * LnMicro[r.votes_up + 1]

(***************************************************************************)
(* CONFIG                                                                  *)
(***************************************************************************)
\* CONFIG.STRATA in declared order; pct in percent, bounded = FALSE is
\* max = float('inf')
STRATA == <<
    [name |-> "Beginner",     min |-> 2,   max |-> 20,  bounded |-> TRUE,  pct |-> 20],
    [name |-> "Intermediate", min |-> 20,  max |-> 100, bounded |-> TRUE,  pct |-> 40],
    [name |-> "Veteran",      min |-> 100, max |-> 500, bounded |-> TRUE,  pct |-> 30],
    [name |-> "Hardcore",     min |-> 500, max |-> 0,   bounded |-> FALSE, pct |-> 10] >>

MIN_PLAYTIME == 2
FETCH_BUFFER_SIZE == 300
MAX_PER_PAGE == 100
MAX_API_ATTEMPTS == 10
VETERAN_PLAYTIME_THRESHOLD == 500
TAIL_VETERANS_COUNT == 5

(***************************************************************************)
(* _get_stratified_sample                                                  *)
(***************************************************************************)
\* bounds["min"] <= r.hours_played < bounds["max"]
InRange(bounds, r) ==
    /\ bounds.min <= r.hours_played
    /\ (bounds.bounded => r.hours_played < bounds.max)

\* The inner loop with its break: the index of the first stratum, in declared
\* order, whose range holds r; 0 when no stratum does
FirstStratum(r) ==
    IF \E i \in 1..Len(STRATA) : InRange(STRATA[i], r)
    THEN CHOOSE i \in 1..Len(STRATA) :
            /\ InRange(STRATA[i], r)
            /\ \A j \in 1..(i - 1) : ~InRange(STRATA[j], r)
    ELSE 0

\* strata_buckets[name] after the first loop, name the i-th stratum
StrataBucket(rs, i) == SelectSeq(rs, LAMBDA r : FirstStratum(r) = i)

\* faulty variant: the quota without its floor of 1
StratTargetNoFloor(target, bounds) == (target * bounds.pct) \div 100
\* strat_target = max(1, int(total_target * bounds["pct"])).  The float
\* product truncates to floor(total_target * pct) exactly for every
\* total_target in 0..2000 and each of the four shares.
StratTarget(target, bounds) == Max(1, (target * bounds.pct) \div 100)

\* The second loop: result.extend(strata_buckets[name][:strat_target])
RECURSIVE ExtendFrom(_, _, _)
ExtendFrom(rs, target, i) ==
    IF i > Len(STRATA) THEN <<>>
    ELSE Take(StrataBucket(rs, i), StratTarget(target, STRATA[i]))
         \o ExtendFrom(rs, target, i + 1)

GetStratifiedSample(rs, target) == ExtendFrom(rs, target, 1)

(***************************************************************************)
(* sorted(..., key=..., reverse=True): a stable sort, so its result is the *)
(* one the insertion below builds: each element goes behind every element  *)
(* already placed whose key is greater or equal.                           *)
(***************************************************************************)
Front(s) == SubSeq(s, 1, Len(s) - 1)
Last(s) == s[Len(s)]

\* faulty variant: an element goes before the placed elements of equal key
InsertByWeightUnstable(done, x) ==
    LET p == Cardinality({i \in 1..Len(done) : weight(done[i]) > weight(x)})
    IN  Take(done, p) \o <<x>> \o Drop(done, p)
\* one step of the sort by r.weight
InsertByWeight(done, x) ==
    LET p == Cardinality({i \in 1..Len(done) : weight(done[i]) >= weight(x)})
    IN  Take(done, p) \o <<x>> \o Drop(done, p)

RECURSIVE SortedByWeight(_)
SortedByWeight(s) ==
    IF s = <<>> THEN <<>>
    ELSE InsertByWeight(SortedByWeight(Front(s)), Last(s))

InsertByVotes(done, x) ==
    LET p == Cardinality({i \in 1..Len(done) : done[i].votes_up >= x.votes_up})
    IN  Take(done, p) \o <<x>> \o Drop(done, p)

RECURSIVE SortedByVotes(_)
SortedByVotes(s) ==
    IF s = <<>> THEN <<>>
    ELSE InsertByVotes(SortedByVotes(Front(s)), Last(s))

(***************************************************************************)
(* sort_and_arrange_reviews                                                *)
(***************************************************************************)
\* vet_neg_candidates
VetNegCandidates(sorted) ==
    SelectSeq(sorted, LAMBDA r : r.hours_played >= VETERAN_PLAYTIME_THRESHOLD)

\* faulty variant: the heaviest negative is taken for the most helpful one
MostHelpfulNegTopWeight(sorted) ==
    IF sorted = <<>> THEN <<>> ELSE <<sorted[1]>>
\* most_helpful_neg: sorted(neg_sorted, key=votes_up, reverse=True)[0], or None
MostHelpfulNeg(sorted) ==
    IF sorted = <<>> THEN <<>> ELSE <<SortedByVotes(sorted)[1]>>

\* list.remove(x): drops the first element equal to x
RemoveFirst(s, x) ==
    LET p == CHOOSE i \in 1..Len(s) :
                 s[i] = x /\ \A j \in 1..(i - 1) : s[j] # x
    IN  Take(s, p - 1) \o Drop(s, p)

\* tail_negatives
TailNegatives(sorted, top) ==
    LET vet_neg_candidates == VetNegCandidates(sorted)
        cnt == Min(TAIL_VETERANS_COUNT, Len(vet_neg_candidates))
        tail == Take(vet_neg_candidates, cnt)
    IN  IF vet_neg_candidates = <<>> THEN <<>>
        ELSE IF top # <<>> /\ \E i \in 1..Len(tail) : tail[i] = top[1]
             THEN RemoveFirst(tail, top[1])
             ELSE tail

\* exclude_ids
ExcludeIds(tail, top) ==
    {tail[i].review_id : i \in 1..Len(tail)}
        \cup (IF top # <<>> THEN {top[1].review_id} ELSE {})

\* faulty variant: the tail veterans stay among the main negatives
MainNegKeepTail(sorted, tail, top) ==
    SelectSeq(sorted, LAMBDA r : r.review_id \notin ExcludeIds(<<>>, top))
\* faulty variant: the most helpful negative stays among the main negatives
MainNegKeepTop(sorted, tail, top) ==
    SelectSeq(sorted, LAMBDA r : r.review_id \notin ExcludeIds(tail, <<>>))
\* main_neg
MainNeg(sorted, tail, top) ==
    SelectSeq(sorted, LAMBDA r : r.review_id \notin ExcludeIds(tail, top))

\* for p, n in zip(main_pos, main_neg): append p, append n
RECURSIVE ZipAppend(_, _)
ZipAppend(ps, ns) ==
    IF ps = <<>> \/ ns = <<>> THEN <<>>
    ELSE <<Head(ps), Head(ns)>> \o ZipAppend(Tail(ps), Tail(ns))

\* faulty variant: each pair is appended negative first
InterleaveNegFirst(ps, ns) ==
    ZipAppend(ns, ps) \o Drop(ps, Len(ns)) \o Drop(ns, Len(ps))
\* the zip loop, then remaining_p and remaining_n
Interleave(ps, ns) ==
    ZipAppend(ps, ns) \o Drop(ps, Len(ns)) \o Drop(ns, Len(ps))

\* final_list
FinalList(ps, ns, tail, top) ==
    Interleave(ps, ns) \o tail \o top

(***************************************************************************)
(* Inputs of the bounded checks.  A review list is built from a list of    *)
(* <<hours_played, votes_up>> pairs; review_id is base + position, so the  *)
(* ids of one call are unique.                                             *)
(***************************************************************************)
MkList(attrs, positive, base) ==
    [i \in 1..Len(attrs) |->
        SteamReview(base + i, positive, attrs[i][1], attrs[i][2])]

\* hours at each stratum's lower edge, and one below every stratum
SampleHours == {1, 2, 20, 100, 500}
SampleVotes == {0, 1}
PosAttrs == {<<10, 0>>, <<600, 0>>, <<600, 1>>}
NegAttrs == {<<10, 3>>, <<2000, 1>>, <<500, 3>>}

\* adjacent elements are in descending votes_up order
IsVotesDescending(s) ==
    \A i \in 1..(Len(s) - 1) : s[i].votes_up >= s[i + 1].votes_up

\* what the loop of fetch_reviews can leave in buffer: hours_played >= MIN_PLAYTIME
BufferInputs ==
    {MkList(a, TRUE, 0) :
        a \in SeqUpTo({h \in SampleHours : h >= MIN_PLAYTIME} \X SampleVotes, MaxLen)}
\* what a direct caller of _get_stratified_sample can pass
DirectInputs ==
    {MkList(a, TRUE, 0) : a \in SeqUpTo(SampleHours \X SampleVotes, MaxLen)}
PosInputs == {MkList(a, TRUE, 0) : a \in SeqUpTo(PosAttrs, MaxPos)}
NegInputs == {MkList(a, FALSE, 100) : a \in SeqUpTo(NegAttrs, MaxNeg)}

IdleSample  ==
    /\ caller = "" /\ buffer = <<>> /\ reviews = <<>>
    /\ total_target = 0 /\ result = <<>>
IdleArrange ==
    /\ pos_reviews = <<>> /\ neg_reviews = <<>>
    /\ pos_sorted = <<>> /\ neg_sorted = <<>>
    /\ most_helpful_neg = <<>> /\ tail_negatives = <<>>
    /\ main_neg = <<>> /\ final_list = <<>>
IdleFetch ==
    /\ buffer_len = 0 /\ cursor = "*" /\ attempts = 0
    /\ requests = 0 /\ stopped = FALSE
IdleTool ==
    /\ game_input = "" /\ count = 0 /\ half_count = 0
    /\ appid = <<>> /\ fetch_calls = {}
    /\ fetched = [positive |-> -1, negative |-> -1]
    /\ tool_result = ""

(***************************************************************************)
(* SpecSample: the end of fetch_reviews (buffer.sort, then the sampler),   *)
(* and a direct call of _get_stratified_sample(reviews, total_target).     *)
(* get_game_reviews passes half_count = max(1, count // 2) >= 1.           *)
(***************************************************************************)
\* faulty variant: the buffer is passed on as the pages left it
SortBufferSkipped(b) == b
\* buffer.sort(key=lambda x: x.votes_up, reverse=True)
SortBuffer(b) == SortedByVotes(b)

InitSample ==
    /\ \/ /\ pc = "sort"
          /\ caller = "fetch_reviews"
          /\ buffer \in BufferInputs
          /\ reviews = <<>>
       \/ /\ pc = "sample"
          /\ caller = "direct"
          /\ buffer = <<>>
          /\ reviews \in DirectInputs
    /\ total_target \in 1..MaxTarget
    /\ result = <<>>
    /\ IdleArrange /\ IdleFetch /\ IdleTool

\* fetch_reviews line 144, and the argument of line 147
SortAndPass ==
    /\ pc = "sort"
    /\ reviews' = SortBuffer(buffer)
    /\ pc' = "sample"
    /\ UNCHANGED <<caller, buffer, total_target, result,
                   arrangeVars, fetchVars, toolVars>>

StratifiedSample ==
    /\ pc = "sample"
    /\ result' = GetStratifiedSample(reviews, total_target)
    /\ pc' = "sampled"
    /\ UNCHANGED <<caller, buffer, reviews, total_target,
                   arrangeVars, fetchVars, toolVars>>

NextSample == SortAndPass \/ StratifiedSample
SpecSample == InitSample /\ [][NextSample]_vars

(***************************************************************************)
(* SpecArrange: one call of sort_and_arrange_reviews(pos, neg).            *)
(***************************************************************************)
InitArrange ==
    /\ pc = "arrange"
    /\ pos_reviews \in PosInputs
    /\ neg_reviews \in NegInputs
    /\ pos_sorted = <<>> /\ neg_sorted = <<>>
    /\ most_helpful_neg = <<>> /\ tail_negatives = <<>>
    /\ main_neg = <<>> /\ final_list = <<>>
    /\ IdleSample /\ IdleFetch /\ IdleTool

SortAndArrange ==
    /\ pc = "arrange"
    /\ pos_sorted' = SortedByWeight(pos_reviews)
    /\ neg_sorted' = SortedByWeight(neg_reviews)
    /\ most_helpful_neg' = MostHelpfulNeg(neg_sorted')
    /\ tail_negatives' = TailNegatives(neg_sorted', most_helpful_neg')
    /\ main_neg' = MainNeg(neg_sorted', tail_negatives', most_helpful_neg')
    /\ final_list' = FinalList(pos_sorted', main_neg', tail_negatives',
                               most_helpful_neg')
    /\ pc' = "arranged"
    /\ UNCHANGED <<pos_reviews, neg_reviews, sampleVars, fetchVars, toolVars>>

NextArrange == SortAndArrange
SpecArrange == InitArrange /\ [][NextArrange]_vars

(***************************************************************************)
(* SpecFetch: one call of fetch_reviews.  The buffer is followed by its    *)
(* length; each action is one pass of the while loop, by the response the  *)
(* review API gave to its request.                                         *)
(***************************************************************************)
\* faulty variant: one pass too many
LoopGuardOffByOne(len, tried) ==
    len < FETCH_BUFFER_SIZE /\ tried <= MAX_API_ATTEMPTS
\* while len(buffer) < FETCH_BUFFER_SIZE and attempts < MAX_API_ATTEMPTS
LoopGuard(len, tried) ==
    len < FETCH_BUFFER_SIZE /\ tried < MAX_API_ATTEMPTS

\* except (httpx.HTTPError, ValueError, KeyError)
Caught == {"HTTPError", "ValueError", "KeyError"}

\* what the request or response.json() raises: a transport or status error,
\* or a body that is not JSON
Raised == {"HTTPError", "ValueError"}

\* cursors the API hands out; "" is a missing or empty cursor
Cursors == {"*", "c1", "c2"}
\* reviews of one non-empty page that pass the playtime and text filter
PageAccepted == {0, 1, MAX_PER_PAGE}

\* if not new_cursor or new_cursor == cursor: break
CursorBreaks(new_cursor, old) == new_cursor = "" \/ new_cursor = old

InitFetch ==
    /\ pc = "loop"
    /\ buffer_len = 0 /\ cursor = "*" /\ attempts = 0
    /\ requests = 0 /\ stopped = FALSE
    /\ IdleSample /\ IdleArrange /\ IdleTool

\* the loop is entered: attempts += 1 and the request is issued
Entered ==
    /\ pc = "loop"
    /\ ~stopped
    /\ LoopGuard(buffer_len, attempts)
    /\ attempts' = attempts + 1
    /\ requests' = requests + 1

\* the request, raise_for_status or response.json() raises
RequestRaises(exc) ==
    /\ Entered
    /\ IF exc \in Caught
       THEN stopped' = TRUE /\ pc' = pc
       ELSE stopped' = stopped /\ pc' = "raised"
    /\ UNCHANGED <<buffer_len, cursor, sampleVars, arrangeVars, toolVars>>

\* data.get("success") is falsy
ResponseNotSuccess ==
    /\ Entered
    /\ stopped' = TRUE
    /\ UNCHANGED <<pc, buffer_len, cursor, sampleVars, arrangeVars, toolVars>>

\* data.get("reviews", []) is empty
ResponseEmptyPage ==
    /\ Entered
    /\ stopped' = TRUE
    /\ UNCHANGED <<pc, buffer_len, cursor, sampleVars, arrangeVars, toolVars>>

\* a page of reviews, k of them kept, and its cursor
ResponsePage(k, new_cursor) ==
    /\ Entered
    /\ buffer_len' = buffer_len + k
    /\ IF CursorBreaks(new_cursor, cursor)
       THEN stopped' = TRUE /\ cursor' = cursor
       ELSE stopped' = stopped /\ cursor' = new_cursor
    /\ UNCHANGED <<pc, sampleVars, arrangeVars, toolVars>>

\* the loop is left: buffer.sort and return self._get_stratified_sample(...)
FetchReturns ==
    /\ pc = "loop"
    /\ stopped \/ ~LoopGuard(buffer_len, attempts)
    /\ pc' = "returned"
    /\ UNCHANGED <<fetchVars, sampleVars, arrangeVars, toolVars>>

NextFetch ==
    \/ \E exc \in Raised : RequestRaises(exc)
    \/ ResponseNotSuccess
    \/ ResponseEmptyPage
    \/ \E k \in PageAccepted, c \in Cursors \cup {""} : ResponsePage(k, c)
    \/ FetchReturns

\* every request is answered or fails within REQUEST_TIMEOUT, and the event
\* loop resumes the coroutine
SpecFetch == InitFetch /\ [][NextFetch]_vars /\ WF_vars(NextFetch)

(***************************************************************************)
(* Spec: the tool get_game_reviews.  Its two fetch_reviews calls share     *)
(* nothing, so each is one action that ends with the list it returns.      *)
(***************************************************************************)
None == "None"

\* get_app_id(game_input) by what the store answered
GetAppId(input, answer) ==
    IF input = "url"
    THEN <<"appid", IF answer = "found" THEN "name" ELSE "AppID appid">>
    ELSE IF answer = "found" THEN <<"appid", "name">> ELSE <<None, None>>

\* bool(x) of a tuple: a tuple is falsy only when it is empty
Truthy(tuple) == Len(tuple) > 0

ReviewTypes == {"positive", "negative"}

Init ==
    /\ pc = "tool"
    /\ game_input \in {"url", "name"}
    /\ count \in 0..MaxCount
    /\ half_count = 0
    /\ appid = <<>> /\ fetch_calls = {}
    /\ fetched = [positive |-> -1, negative |-> -1]
    /\ tool_result = ""
    /\ IdleSample /\ IdleArrange /\ IdleFetch

\* lines 45-55: half_count, get_app_id, the check of appid, the two calls
SearchAppId(answer) ==
    /\ pc = "tool"
    /\ half_count' = Max(1, count \div 2)
    /\ appid' = GetAppId(game_input, answer)
    /\ IF ~Truthy(appid')
       THEN /\ tool_result' = "not_found"
            /\ fetch_calls' = fetch_calls
            /\ pc' = "tool_done"
       ELSE /\ tool_result' = tool_result
            /\ fetch_calls' = ReviewTypes
            /\ pc' = "gather"
    /\ UNCHANGED <<game_input, count, fetched, sampleVars, arrangeVars, fetchVars>>

\* one of the gathered fetch_reviews calls returns a list of n reviews
FetchDone(t, n) ==
    /\ pc = "gather"
    /\ t \in fetch_calls
    /\ fetched[t] = -1
    /\ fetched' = [fetched EXCEPT ![t] = n]
    /\ UNCHANGED <<pc, game_input, count, half_count, appid, fetch_calls,
                   tool_result, sampleVars, arrangeVars, fetchVars>>

\* lines 57-132: both lists are there; the empty check, then the report
Report ==
    /\ pc = "gather"
    /\ \A t \in ReviewTypes : fetched[t] >= 0
    /\ tool_result' = IF fetched.positive = 0 /\ fetched.negative = 0
                      THEN "no_reviews" ELSE "report"
    /\ pc' = "tool_done"
    /\ UNCHANGED <<game_input, count, half_count, appid, fetch_calls, fetched,
                   sampleVars, arrangeVars, fetchVars>>

Next ==
    \/ \E answer \in {"found", "no_items", "failed"} : SearchAppId(answer)
    \/ \E t \in ReviewTypes, n \in 0..MaxFetched : FetchDone(t, n)
    \/ Report

Spec == Init /\ [][Next]_vars

(***************************************************************************)
(* The claims.  What a claim names in words (the bucket of a stratum, the  *)
(* tail veterans, the main negatives) is defined here from the claim's     *)
(* wording, apart from the operators that model the code.                  *)
(***************************************************************************)
\* number of places of s that hold r
Occurrences(s, r) == Cardinality({i \in 1..Len(s) : s[i] = r})
\* the first place of s that holds r
PlaceIn(s, r) ==
    CHOOSE i \in 1..Len(s) : s[i] = r /\ \A j \in 1..(i - 1) : s[j] # r
Holds(s, r) == \E i \in 1..Len(s) : s[i] = r

\* ---- the sampler's claims
\* the stratum of a review: the first in declared order with
\* min <= hours_played < max; 0 when there is none
ClaimStratum(r) ==
    LET fits == {i \in 1..Len(STRATA) :
                    /\ r.hours_played >= STRATA[i].min
                    /\ (~STRATA[i].bounded \/ r.hours_played < STRATA[i].max)}
    IN  IF fits = {} THEN 0
        ELSE CHOOSE i \in fits : \A j \in fits : i <= j
ClaimBucket(i) == SelectSeq(reviews, LAMBDA r : ClaimStratum(r) = i)
\* floor(N * share)
ClaimFloor(i) == (total_target * STRATA[i].pct) \div 100
\* max(1, floor(N * share))
ClaimQuota(i) == IF ClaimFloor(i) >= 1 THEN ClaimFloor(i) ELSE 1
\* what stratum i gives: min(|bucket|, quota) reviews
ClaimGiven(i) == Min(Len(ClaimBucket(i)), ClaimQuota(i))
\* the reviews of the result that lie in stratum i
ResultIn(i) == SelectSeq(result, LAMBDA r : ClaimStratum(r) = i)
\* where the part of stratum i starts in the concatenation
RECURSIVE ClaimOffset(_)
ClaimOffset(i) ==
    IF i <= 1 THEN 0 ELSE ClaimOffset(i - 1) + ClaimGiven(i - 1)

\* adjacent reviews of one stratum are in descending votes_up order
DescendingWithinStrata(s) ==
    \A i \in 1..(Len(s) - 1) :
        ClaimStratum(s[i]) = ClaimStratum(s[i + 1])
            => s[i].votes_up >= s[i + 1].votes_up

\* C1: _get_stratified_sample returns at most total_target reviews.
C1_AtMostTarget ==
    pc = "sampled" => Len(result) <= total_target

\* C4 as claimed: given a buffer sorted by descending votes_up, every pair of
\* adjacent reviews of the sampler's result is in descending votes_up order.
C4_ResultVotesDescending ==
    (pc = "sampled" /\ IsVotesDescending(reviews)) => IsVotesDescending(result)

\* C4 as amended: the result of fetch_reviews, and of the sampler given a list
\* sorted by descending votes_up, is in descending votes_up order within each
\* stratum: adjacent reviews of the same stratum never ascend.
C4_DescendingWithinStrata ==
    (pc = "sampled" /\ (caller = "fetch_reviews" \/ IsVotesDescending(reviews)))
        => DescendingWithinStrata(result)

\* fetch_reviews sorted an unsorted buffer, and the result holds two adjacent
\* reviews of one stratum with different votes_up
C4_Witness ==
    /\ pc = "sampled"
    /\ caller = "fetch_reviews"
    /\ ~IsVotesDescending(buffer)
    /\ \E i \in 1..(Len(result) - 1) :
          /\ ClaimStratum(result[i]) = ClaimStratum(result[i + 1])
          /\ result[i].votes_up > result[i + 1].votes_up

\* C8: each review goes to the first stratum whose range holds its hours and
\* is dropped when there is none; the result is the concatenation, in declared
\* order, of the first min(|bucket|, max(1, floor(N * share))) reviews of each
\* bucket; so a non-empty bucket gives at least one review and at most its
\* quota, and a bucket below its quota gives all it has and nothing replaces
\* the rest.
C8_QuotaConcatenation ==
    pc = "sampled" =>
        /\ Len(result) = ClaimOffset(Len(STRATA) + 1)
        /\ \A i \in 1..Len(STRATA) : \A j \in 1..ClaimGiven(i) :
              result[ClaimOffset(i) + j] = ClaimBucket(i)[j]
        /\ \A k \in 1..Len(result) : ClaimStratum(result[k]) # 0
        /\ \A i \in 1..Len(STRATA) :
              /\ ClaimBucket(i) # <<>> => Len(ResultIn(i)) >= 1
              /\ Len(ResultIn(i)) <= ClaimQuota(i)
              /\ Len(ClaimBucket(i)) < ClaimQuota(i)
                    => ResultIn(i) = ClaimBucket(i)

\* a stratum whose share rounds to 0 holds more than one review, and another
\* non-empty stratum holds fewer reviews than its quota
C8_Witness ==
    /\ pc = "sampled"
    /\ \E i \in 1..Len(STRATA) :
          ClaimFloor(i) = 0 /\ Len(ClaimBucket(i)) > 1
    /\ \E i \in 1..Len(STRATA) :
          ClaimBucket(i) # <<>> /\ Len(ClaimBucket(i)) < ClaimQuota(i)

\* ---- the arranger's claims
\* the ranking of a group is right: the same reviews, by non-increasing
\* weight, equal weights in their input order, and ranking it again changes
\* nothing
Ranked(input, ranked) ==
    /\ Len(ranked) = Len(input)
    /\ \A i \in 1..Len(input) : Occurrences(ranked, input[i]) = 1
    /\ \A i \in 1..(Len(ranked) - 1) :
          /\ weight(ranked[i]) >= weight(ranked[i + 1])
          /\ weight(ranked[i]) = weight(ranked[i + 1])
                => PlaceIn(input, ranked[i]) < PlaceIn(input, ranked[i + 1])
    /\ SortedByWeight(ranked) = ranked

\* C7: the weight ranking of each sentiment group is by non-increasing weight,
\* keeps reviews of equal weight in their original order, and is idempotent.
C7_WeightRanking ==
    pc = "arranged" =>
        /\ Ranked(pos_reviews, pos_sorted)
        /\ Ranked(neg_reviews, neg_sorted)

\* two positives of equal weight and different hours, and negatives that are
\* given out of order and hold a tie
C7_Witness ==
    /\ pc = "arranged"
    /\ \E i, j \in 1..Len(pos_reviews) :
          /\ i < j
          /\ weight(pos_reviews[i]) = weight(pos_reviews[j])
          /\ pos_reviews[i].hours_played # pos_reviews[j].hours_played
    /\ \E i, j \in 1..Len(neg_reviews) :
          i < j /\ weight(neg_reviews[i]) < weight(neg_reviews[j])
    /\ \E i, j \in 1..Len(neg_reviews) :
          i < j /\ weight(neg_reviews[i]) = weight(neg_reviews[j])

\* the negatives in descending-weight order
ClaimNegatives == neg_sorted
\* the negative with the highest votes_up, the first such in ClaimNegatives,
\* as <<r>>; <<>> without negatives
ClaimTopHelpful ==
    LET negs == ClaimNegatives
        best == {i \in 1..Len(negs) :
                    \A j \in 1..Len(negs) : negs[j].votes_up <= negs[i].votes_up}
    IN  IF negs = <<>> THEN <<>>
        ELSE <<negs[CHOOSE i \in best : \A j \in best : i <= j]>>
\* negatives with hours_played >= VETERAN_PLAYTIME_THRESHOLD
ClaimVetCandidates ==
    SelectSeq(ClaimNegatives,
              LAMBDA r : r.hours_played >= VETERAN_PLAYTIME_THRESHOLD)
\* the first min(TAIL_VETERANS_COUNT, |vet_candidates|) of them, minus the
\* top-helpful negative
ClaimTailVeterans ==
    LET top == ClaimTopHelpful
        vets == ClaimVetCandidates
    IN  SelectSeq(SubSeq(vets, 1, Min(TAIL_VETERANS_COUNT, Len(vets))),
                  LAMBDA r : top = <<>> \/ r.review_id # top[1].review_id)
\* the negatives that are neither tail veterans nor the top-helpful negative
ClaimMainNegatives ==
    LET top == ClaimTopHelpful
        tail == ClaimTailVeterans
    IN  SelectSeq(ClaimNegatives,
                  LAMBDA r : ~Holds(tail, r) /\ (top = <<>> \/ r # top[1]))

\* C2: with unique review ids, the arrangement holds every input review
\* exactly once: its length is len(positives) + len(negatives), no review is
\* repeated and none is missing.
C2_EachReviewOnce ==
    pc = "arranged" =>
        /\ Len(final_list) = Len(pos_reviews) + Len(neg_reviews)
        /\ \A i \in 1..Len(pos_reviews) :
              Occurrences(final_list, pos_reviews[i]) = 1
        /\ \A i \in 1..Len(neg_reviews) :
              Occurrences(final_list, neg_reviews[i]) = 1

\* positives, main negatives, tail veterans and a top-helpful negative that
\* is a veteran are all there
C2_Witness ==
    /\ pc = "arranged"
    /\ pos_reviews # <<>>
    /\ main_neg # <<>>
    /\ tail_negatives # <<>>
    /\ most_helpful_neg # <<>>
    /\ most_helpful_neg[1].hours_played >= VETERAN_PLAYTIME_THRESHOLD

\* C3: with negatives, the last review of the arrangement is the negative
\* with the highest votes_up; among several with that maximum it is the first
\* in descending-weight order (equal weights: the first in the input).
C3_LastIsTopHelpful ==
    (pc = "arranged" /\ neg_reviews # <<>>) =>
        LET last == final_list[Len(final_list)]
        IN  /\ Holds(neg_reviews, last)
            /\ \A i \in 1..Len(neg_reviews) :
                  /\ neg_reviews[i].votes_up <= last.votes_up
                  /\ (neg_reviews[i].votes_up = last.votes_up
                        /\ neg_reviews[i] # last)
                       => \/ weight(neg_reviews[i]) < weight(last)
                          \/ /\ weight(neg_reviews[i]) = weight(last)
                             /\ PlaceIn(neg_reviews, last) < i

\* two negatives share the highest votes_up with different weights, the
\* lighter one given first, and the heaviest negative is not the last review
C3_Witness ==
    /\ pc = "arranged"
    /\ neg_reviews # <<>>
    /\ final_list[Len(final_list)] # neg_sorted[1]
    /\ \E i, j \in 1..Len(neg_reviews) :
          /\ i < j
          /\ neg_reviews[i].votes_up = final_list[Len(final_list)].votes_up
          /\ neg_reviews[j] = final_list[Len(final_list)]
          /\ weight(neg_reviews[i]) < weight(neg_reviews[j])

\* C5: every tail veteran is in the arrangement, and only at places behind the
\* len(positives) + len(main_negatives) interleaved ones.
C5_TailVeteransBehindMain ==
    pc = "arranged" =>
        LET tail == ClaimTailVeterans
            interleaved == Len(pos_reviews) + Len(ClaimMainNegatives)
        IN  /\ \A j \in 1..Len(tail) : Holds(final_list, tail[j])
            /\ \A i \in 1..Len(final_list) :
                  Holds(tail, final_list[i]) => i > interleaved

\* more veterans than TAIL_VETERANS_COUNT, so that one of them stays among
\* the main negatives, with positives and tail veterans
C5_Witness ==
    /\ pc = "arranged"
    /\ pos_reviews # <<>>
    /\ Len(ClaimVetCandidates) > TAIL_VETERANS_COUNT
    /\ ClaimTailVeterans # <<>>
    /\ LET main == ClaimMainNegatives
       IN  \E i \in 1..Len(main) :
               main[i].hours_played >= VETERAN_PLAYTIME_THRESHOLD

\* C9: with P the ranked positives, M the main negatives and
\* k = min(|P|, |M|), the arrangement starts P[1], M[1], ..., P[k], M[k], then
\* the rest of the longer list in order; without negatives it is P.
C9_Interleaving ==
    pc = "arranged" =>
        LET P == pos_sorted
            M == ClaimMainNegatives
            k == Min(Len(P), Len(M))
        IN  /\ Len(final_list) >= Len(P) + Len(M)
            /\ \A i \in 1..k :
                  final_list[2 * i - 1] = P[i] /\ final_list[2 * i] = M[i]
            /\ \A i \in (k + 1)..Len(P) : final_list[k + i] = P[i]
            /\ \A i \in (k + 1)..Len(M) : final_list[k + i] = M[i]
            /\ neg_reviews = <<>> => final_list = P

\* two positives and more main negatives than positives
C9_Witness ==
    /\ pc = "arranged"
    /\ Len(pos_sorted) >= 2
    /\ Len(ClaimMainNegatives) > Len(pos_sorted)
    /\ tail_negatives # <<>>

\* ---- the loop of fetch_reviews
\* C10: whatever the API answers, fetch_reviews issues at most
\* MAX_API_ATTEMPTS requests, issues none once the buffer holds
\* FETCH_BUFFER_SIZE reviews or the loop was left, never raises, and returns.
C10_FetchTerminates ==
    /\ [](requests <= MAX_API_ATTEMPTS /\ pc # "raised")
    /\ [][requests' # requests
            => (buffer_len < FETCH_BUFFER_SIZE /\ ~stopped)]_vars
    /\ <>(pc = "returned")

\* the call returned after MAX_API_ATTEMPTS requests, none of which ended the
\* loop or filled the buffer
C10_Witness ==
    /\ pc = "returned"
    /\ requests = MAX_API_ATTEMPTS
    /\ ~stopped
    /\ buffer_len < FETCH_BUFFER_SIZE
    /\ buffer_len > 0

\* ---- the tool
\* C6: when get_app_id returns (None, None), get_game_reviews makes no
\* fetch_reviews call and returns the 'game not found' message.
C6_NotFoundMakesNoFetch ==
    appid = <<None, None>> =>
        /\ fetch_calls = {}
        /\ pc = "tool_done" => tool_result = "not_found"
====
